---- MODULE Spec2Model ----
(***************************************************************************)
(* Model of the thermal printer driver in src/src/printer/printer.rs.      *)
(*                                                                         *)
(* The state is the Printer struct.  Every public method is one action     *)
(* that runs the whole method body.  Durations are whole microseconds.     *)
(* Bytes are integers 0..255, characters are Unicode code points.          *)
(*                                                                         *)
(* Besides the struct fields the model keeps an observation of the most    *)
(* recent call: `op` (method name and arguments), `port` (the sequence of  *)
(* sleeps and port writes the call performed, in order) and `result`       *)
(* (what the call returned).                                               *)
(***************************************************************************)
EXTENDS Integers, Sequences, FiniteSets, TLC

VARIABLES timeout, last_byte, last_column, max_column, char_height,
          inter_line_spacing, barcode_height, max_chunk_height,
          firmware_version, dot_print_time, dot_feed_time,
          port, result, op

vars == <<timeout, last_byte, last_column, max_column, char_height,
          inter_line_spacing, barcode_height, max_chunk_height,
          firmware_version, dot_print_time, dot_feed_time,
          port, result, op>>

fields == <<timeout, last_byte, last_column, max_column, char_height,
            inter_line_spacing, barcode_height, max_chunk_height,
            firmware_version, dot_print_time, dot_feed_time>>

----------------------------------------------------------------------------
(* Protocol bytes, src/src/printer/mod.rs *)
LF == 10
FF == 12
CR == 13
DC2 == 18
ESC == 27
GS == 29

(* Compile-time baud rate of Printer<BAUDRATE = 19200>. *)
BAUDRATE == 19200

(* Duration::from_millis(500): the startup wait set by new(). *)
STARTUP_WAIT == 500000

(* The firmware version new() stores. *)
DEFAULT_FIRMWARE == 268

(* The first firmware version that speaks the modern dialect. *)
MODERN_FIRMWARE == 264

----------------------------------------------------------------------------
(* Bounds of the model. *)

(* Longest string handed to write(). *)
MaxLen == 2

(* Largest line count handed to cmd_feed(). *)
MaxLines == 3

(* The port write of a call (1st, 2nd, ...) that may go wrong. *)
MaxFault == 3

(* Longest barcode payload handed to print_barcode(). *)
MaxPayload == 1

----------------------------------------------------------------------------
(* Input domains. *)

(* Characters handed to write_char / write: 'a', line feed, carriage       *)
(* return, and U+0161 (a character outside the single-byte range, whose    *)
(* low byte is 0x61).                                                      *)
Chars == {97, LF, CR, 353}

(* Characters of the strings handed to write: line feed, carriage return   *)
(* and U+0161, which is sent as the byte of 'a'.                           *)
TextChars == {LF, CR, 353}

(* Byte slices handed to write_bytes by a caller: an arbitrary command,    *)
(* the reset command and the form feed.                                    *)
RawCommands == {<<1, 2, 3>>, <<ESC, 64>>, <<FF>>}

(* Barcode payload bytes ('0', '1') and symbologies (UpcA,                  *)
(* Code128).                                                               *)
PayloadBytes == {48, 49}

BarcodeTypes == {0, 8}

(* Payloads around the largest length one byte can state: 255, 256 and    *)
(* 300 bytes of '0'.                                                       *)
LongPayloadLengths == {255, 256, 300}

(* Inputs of the timing functions: line geometries, positive calibration  *)
(* constants (microseconds per dot row) and baud rates.                    *)
TimingHeights == {0, 1, 24, 25, 255}

TimingSpacings == {0, 1, 6, 7}

TimingDotTimes == {1, 2100, 20000}

BaudRates == {300, 1200, 2400, 4800, 9600, 19200, 38400, 57600, 115200}

(* Arguments of the configuration commands.  Durations in microseconds;    *)
(* 2560 us / 10 and 64000 us / 250 do not fit in a byte.                   *)
HeatDots == {11}

HeatTimes == {40, 120, 2560}

Densities == {10}

BreakTimes == {500, 64000}

BarcodeHeights == {0, 80}

(* Bitmaps handed to print_bitmap: width, height and the byte slice.       *)
(* Two small ones (a width that is a multiple of 8 and one that is not),   *)
(* a slice longer than w * h bits, a slice shorter than w * h bits, width  *)
(* 0, a row wider than the row buffer, and a width of which not one row    *)
(* fits in a chunk.                                                        *)
Fill(n, x) == [i \in 1..n |-> x]

Bitmaps ==
    { [w |-> 8, h |-> 2, bits |-> <<200, 60>>],
      [w |-> 12, h |-> 2, bits |-> <<255, 255, 255>>],
      [w |-> 8, h |-> 1, bits |-> <<200, 60>>],
      [w |-> 8, h |-> 2, bits |-> <<200>>],
      [w |-> 0, h |-> 1, bits |-> <<200>>],
      [w |-> 392, h |-> 1, bits |-> Fill(49, 0)],
      [w |-> 4097, h |-> 0, bits |-> <<>>] }

(* Bitmaps for the chunking and packing of print_bitmap: the small ones,   *)
(* the 15-bit rows of tests/bitmaps.rs, rows of two whole bytes, one row   *)
(* of 12 dots in a slice of three bytes, 11 rows                           *)
(* of 384 and of 380 dots (10 rows fit in a chunk), and 513 rows of width  *)
(* 1 (4096 rows fit in a chunk).                                           *)
Pattern(n) == [i \in 1..n |-> (37 * i) % 256]

BitmapCases ==
    Bitmaps \cup
    { [w |-> 15, h |-> 2, bits |-> <<0, 1, 2, 3>>],
      [w |-> 16, h |-> 2, bits |-> <<200, 1, 60, 255>>],
      [w |-> 12, h |-> 1, bits |-> <<200, 60, 1>>],
      [w |-> 384, h |-> 11, bits |-> Pattern(528)],
      [w |-> 380, h |-> 11, bits |-> Pattern(523)],
      [w |-> 1, h |-> 513, bits |-> Pattern(65)] }

(* What the serial port does with one write: accept all bytes, accept      *)
(* fewer bytes than requested (Ok(n), n < len), or fail (Err).             *)
NoFault == [at |-> 0, kind |-> "ok"]

Faults == {NoFault} \cup [at : 1..MaxFault, kind : {"short", "err"}]

RECURSIVE SeqsUpTo(_, _)
SeqsUpTo(S, n) ==
    IF n = 0 THEN {<<>>}
    ELSE LET shorter == SeqsUpTo(S, n - 1)
         IN shorter \cup {Append(s, x) : s \in {t \in shorter : Len(t) = n - 1}, x \in S}

----------------------------------------------------------------------------
(* The Printer value a method works on, with the transcript of the call.   *)

Self(f) ==
    [timeout |-> timeout, last_byte |-> last_byte, last_column |-> last_column,
     max_column |-> max_column, char_height |-> char_height,
     inter_line_spacing |-> inter_line_spacing, barcode_height |-> barcode_height,
     max_chunk_height |-> max_chunk_height, firmware_version |-> firmware_version,
     dot_print_time |-> dot_print_time, dot_feed_time |-> dot_feed_time,
     port |-> <<>>, error |-> "none", nwrites |-> 0, fault |-> f]

(* The method returns: the fields are stored back, the caller sees Ok or   *)
(* the error.                                                              *)
Return(p, o) ==
    /\ timeout' = p.timeout
    /\ last_byte' = p.last_byte
    /\ last_column' = p.last_column
    /\ max_column' = p.max_column
    /\ char_height' = p.char_height
    /\ inter_line_spacing' = p.inter_line_spacing
    /\ barcode_height' = p.barcode_height
    /\ max_chunk_height' = p.max_chunk_height
    /\ firmware_version' = p.firmware_version
    /\ dot_print_time' = p.dot_print_time
    /\ dot_feed_time' = p.dot_feed_time
    /\ port' = p.port
    /\ result' = IF p.error = "none" THEN "ok" ELSE p.error
    /\ op' = o

Failed(p) == p.error # "none"

----------------------------------------------------------------------------
(* Timing model. *)

(* Duration::from_micros(((11 * 1000000) + BAUDRATE / 2) as u64             *)
(*                       / BAUDRATE as u64)                                 *)
byte_duration_mut(baud) == ((11 * 1000000) + baud - 1) \div baud

byte_duration(baud) == ((11 * 1000000) + baud \div 2) \div baud

BYTE_DURATION == byte_duration(BAUDRATE)

(* The dot counts are cast with `as u32` before they are multiplied; the   *)
(* dot counts of the model are far below 2^32, where the cast changes      *)
(* nothing.                                                                *)

set_timeout(p, t) == [p EXCEPT !.timeout = t]

(* thread::sleep(d) *)
sleep(p, d) ==
    [p EXCEPT !.port = Append(@, [ev |-> "sleep", bytes |-> <<>>, t |-> d, res |-> "ok"])]

wait(p) == set_timeout(sleep(p, p.timeout), 0)

feed_duration(p) == (p.char_height + p.inter_line_spacing) * p.dot_feed_time

text_line_duration_mut(p) ==
    (p.char_height * p.dot_print_time) + p.inter_line_spacing

text_line_duration(p) ==
    (p.char_height * p.dot_print_time) + (p.inter_line_spacing * p.dot_feed_time)

----------------------------------------------------------------------------
(* self.port.write(cmd)?  The transcript records the bytes handed to the   *)
(* port, the timeout still pending at that moment and what the port did.   *)
(* Only Err makes the `?` return; the byte count of Ok(n) is dropped.      *)

port_outcome(p, n) == IF p.fault.at = n THEN p.fault.kind ELSE "ok"

port_write(p, cmd) ==
    LET n == p.nwrites + 1
        r == port_outcome(p, n)
    IN [p EXCEPT !.nwrites = n,
                 !.port = Append(@, [ev |-> "write", bytes |-> cmd,
                                     t |-> p.timeout, res |-> r]),
                 !.error = IF r = "err" THEN "transport" ELSE "none"]

write_bytes(p, cmd) == port_write(wait(p), cmd)

----------------------------------------------------------------------------
(* write_char *)

(* `c as u8` *)
as_u8(c) == c % 256

(* mutant: the carriage return test is lost *)
is_dropped_mut(c) == FALSE

is_dropped(c) == c = CR

(* mutant: the wrap is taken one column late *)
line_break_mut(p, c) == c = LF \/ p.last_column > p.max_column

line_break(p, c) == c = LF \/ p.last_column >= p.max_column

(* mutant: the two line durations are swapped *)
line_charge_mut(p) ==
    IF p.last_byte = LF THEN text_line_duration(p) ELSE feed_duration(p)

line_charge(p) ==
    IF p.last_byte = LF THEN feed_duration(p) ELSE text_line_duration(p)

write_char(p, ch) ==
    LET c == as_u8(ch)
    IN IF is_dropped(c) THEN p
       ELSE LET q == port_write(wait(p), <<c>>)
            IN IF Failed(q) THEN q
               ELSE IF line_break(q, c)
                    THEN [q EXCEPT !.timeout = BYTE_DURATION + line_charge(q),
                                   !.last_column = 0,
                                   !.last_byte = LF]
                    ELSE [q EXCEPT !.timeout = BYTE_DURATION,
                                   !.last_column = @ + 1,
                                   !.last_byte = c]

(* mutant: write carries on after a failed character *)
write_stops_mut(q) == FALSE

(* The `?` after write_char inside write's loop. *)
write_stops(q) == Failed(q)

(* for c in s.chars() { self.write_char(c)?; } *)
RECURSIVE write(_, _)
write(p, s) ==
    IF s = <<>> THEN p
    ELSE LET q == write_char(p, Head(s))
         IN IF write_stops(q) THEN q ELSE write(q, Tail(s))

----------------------------------------------------------------------------
(* cmd_feed *)

(* mutant: the feed is charged as a whole empty line *)
feed_timeout_mut(p) == feed_duration(p)

feed_timeout(p) == p.dot_feed_time * p.char_height

(* for n in 1..lines { self.write_char('\n')?; }, n being the next value   *)
(* of the range.                                                           *)
RECURSIVE feed_legacy(_, _, _)
feed_legacy(p, n, lines) ==
    IF n >= lines THEN p
    ELSE LET q == write_char(p, LF)
         IN IF Failed(q) THEN q ELSE feed_legacy(q, n + 1, lines)

cmd_feed(p, lines) ==
    IF p.firmware_version >= MODERN_FIRMWARE
    THEN LET q == write_bytes(p, <<ESC, 100, lines>>)
         IN IF Failed(q) THEN q
            ELSE [q EXCEPT !.timeout = feed_timeout(q),
                           !.last_byte = LF,
                           !.last_column = 0]
    ELSE feed_legacy(p, 1, lines)

----------------------------------------------------------------------------
(* Bit operations on bytes. *)

RECURSIVE BitOr(_, _, _)
BitOr(a, b, bits) ==
    IF bits = 0 THEN 0
    ELSE (IF a % 2 = 1 \/ b % 2 = 1 THEN 1 ELSE 0)
         + 2 * BitOr(a \div 2, b \div 2, bits - 1)

(* u8::try_from(x), x a u128 *)
fits_u8_mut(x) == x <= 256

fits_u8(x) == x <= 255

----------------------------------------------------------------------------
(* cmd_wake *)

(* for i in 0..10 { self.write_bytes(&[0])?; self.set_timeout(10 ms); } *)
RECURSIVE wake_legacy(_, _)
wake_legacy(p, i) ==
    IF i >= 10 THEN p
    ELSE LET q == write_bytes(p, <<0>>)
         IN IF Failed(q) THEN q ELSE wake_legacy(set_timeout(q, 10000), i + 1)

(* mutant: the firmware test of cmd_wake is inverted *)
wake_modern_mut(p) == p.firmware_version <= MODERN_FIRMWARE

(* if self.firmware_version > 264 *)

wake_modern(p) == p.firmware_version > MODERN_FIRMWARE

cmd_wake(p) ==
    LET q == write_bytes(set_timeout(p, 0), <<255>>)
    IN IF Failed(q) THEN q
       ELSE LET r == set_timeout(q, 50000)
            IN IF wake_modern(r)
               THEN LET u == write_bytes(r, <<ESC, 56, 0, 0>>)
                    IN IF Failed(u) THEN u ELSE set_timeout(u, 50000)
               ELSE wake_legacy(r, 0)

----------------------------------------------------------------------------
(* Configuration commands. *)

cmd_init(p) ==
    LET q == write_bytes(p, <<ESC, 64>>)
    IN IF Failed(q) THEN q ELSE set_timeout(q, 100000)

cmd_flush(p) == write_bytes(p, <<FF>>)

(* The two try_into()? conversions are evaluated while the argument array  *)
(* is built, before write_bytes is entered.                                *)
cmd_set_heat_config(p, dots, heating_time, heating_interval) ==
    IF ~fits_u8(heating_time \div 10) \/ ~fits_u8(heating_interval \div 10)
    THEN [p EXCEPT !.error = "encoding"]
    ELSE write_bytes(p, <<ESC, 55, dots, heating_time \div 10, heating_interval \div 10>>)

density_byte(density, break_time) ==
    BitOr(density, ((break_time % 8) * 32) % 256, 8)

cmd_set_print_density(p, density, break_time) ==
    IF ~fits_u8(break_time \div 250)
    THEN [p EXCEPT !.error = "encoding"]
    ELSE LET q == port_write(p, <<27, 35, density_byte(density, break_time \div 250)>>)
         IN IF Failed(q) THEN q ELSE sleep(q, 1000)

(* Underline::None => 0, Single => 1, Double => 2 *)
cmd_set_underline(p, underline) ==
    LET q == port_write(p, <<ESC, 45, underline>>)
    IN IF Failed(q) THEN q ELSE sleep(q, 1000)

max(a, b) == IF a >= b THEN a ELSE b

set_barcode_height(p, val) == write_bytes(p, <<GS, 104, max(1, val)>>)

test_page_duration(p) ==
    p.dot_print_time * 24 * 26 + p.dot_feed_time * (6 * 26 + 30)

cmd_test_page(p) ==
    LET q == write_bytes(p, <<DC2, 84>>)
    IN IF Failed(q) THEN q ELSE set_timeout(q, test_page_duration(q))

----------------------------------------------------------------------------
(* init *)

(* mutant: the firmware test of init is inverted *)
has_tab_stops_mut(p) == p.firmware_version < MODERN_FIRMWARE

(* if self.firmware_version >= 264 *)

has_tab_stops(p) == p.firmware_version >= MODERN_FIRMWARE

tab_stops(p) ==
    IF has_tab_stops(p)
    THEN write_bytes(p, <<ESC, 68, 4, 8, 12, 16, 20, 24, 28, 0>>)
    ELSE p

(* The six assignments of init that follow cmd_init. *)
reset_fields_mut(p) ==
    [p EXCEPT !.last_byte = LF,
              !.max_column = 32,
              !.char_height = 24,
              !.inter_line_spacing = 6,
              !.barcode_height = 50]

reset_fields(p) ==
    [p EXCEPT !.last_byte = LF,
              !.last_column = 0,
              !.max_column = 32,
              !.char_height = 24,
              !.inter_line_spacing = 6,
              !.barcode_height = 50]

init(p) ==
    LET q == cmd_init(p)
    IN IF Failed(q) THEN q
       ELSE LET r == tab_stops(reset_fields(q))
            IN IF Failed(r) THEN r ELSE cmd_set_heat_config(r, 11, 120, 40)

----------------------------------------------------------------------------
(* print_barcode.  s is the payload string as its bytes (s.as_ref()),      *)
(* barcode_type the discriminant of the Barcode enum (UpcA = 0, ...,       *)
(* Code128 = 8).                                                           *)

barcode_code(p, barcode_type) ==
    IF p.firmware_version >= MODERN_FIRMWARE THEN barcode_type + 65 ELSE barcode_type

barcode_timeout(p) == (p.barcode_height + 40) * p.dot_print_time

barcode_data(p, s, code) ==
    IF p.firmware_version >= MODERN_FIRMWARE
    THEN LET q == write_bytes(p, <<GS, 107, code, as_u8(Len(s))>>)
         IN IF Failed(q) THEN q ELSE write_bytes(q, s)
    ELSE LET q == write_bytes(p, <<GS, 107, code>>)
         IN IF Failed(q) THEN q
            ELSE LET r == write_bytes(q, s)
                 IN IF Failed(r) THEN r ELSE write_bytes(r, <<0>>)

barcode_setup(p) ==
    LET q == write_bytes(p, <<GS, 72, 2>>)
    IN IF Failed(q) THEN q ELSE write_bytes(q, <<GS, 119, 3>>)

print_barcode(p, s, barcode_type) ==
    LET q == cmd_feed(p, 1)
    IN IF Failed(q) THEN q
       ELSE LET r == barcode_setup(q)
            IN IF Failed(r) THEN r
               ELSE LET u == barcode_data(r, s, barcode_code(r, barcode_type))
                    IN IF Failed(u) THEN u
                       ELSE [u EXCEPT !.timeout = barcode_timeout(u),
                                      !.last_byte = LF]

----------------------------------------------------------------------------
(* print_bitmap.  bitmap is the byte slice; w and h are in dots.           *)

(* const CHUNK_SIZE: usize = 512 *)
CHUNK_SIZE == 512

(* let mut b = [0u8; 48] *)
ROW_BUFFER == 48

(* Duration::from_millis(5), stored by print_bitmap *)
BITMAP_DOT_PRINT_TIME == 5000

panic(p) == [p EXCEPT !.error = "panic"]

(* bitmap.view_bits::<Msb0>()[i], i counted from 0 *)
bit_at(bitmap, i) == (bitmap[(i \div 8) + 1] \div (2 ^ (7 - (i % 8)))) % 2

(* let shift = 7 - idx % 8; *)
bit_shift(idx) == 7 - (idx % 8)

(* let w_in_bytes = (w + 7) / 8; *)
w_in_bytes(w) == (w + 7) \div 8

(* b[byte] |= 1 << shift for the set bits idx of the row with              *)
(* idx / 8 = byte, shift = 7 - idx % 8; the row starts at bit `first`.     *)
RECURSIVE packed_byte(_, _, _, _, _)
packed_byte(bitmap, first, w, byte, j) ==
    IF j > 7 \/ 8 * byte + j >= w THEN 0
    ELSE bit_at(bitmap, first + 8 * byte + j) * (2 ^ bit_shift(8 * byte + j))
         + packed_byte(bitmap, first, w, byte, j + 1)

(* &b[..w_in_bytes] *)
packed_row(bitmap, first, w) ==
    [k \in 1..w_in_bytes(w) |-> packed_byte(bitmap, first, w, k - 1, 0)]

(* A row wider than the 48-byte buffer panics before it is written: at     *)
(* b[byte] for a set bit past dot 384, else at b[..w_in_bytes].            *)
row_overflows(w) == w_in_bytes(w) > ROW_BUFFER

chunk_header(brows, w) == <<DC2, 42, as_u8(brows), as_u8(w_in_bytes(w))>>

(* for _ in 0..brows { ...; self.write_bytes(&b[..w_in_bytes])?; } *)
RECURSIVE print_rows(_, _, _, _, _)
print_rows(p, bitmap, first, w, rows) ==
    IF rows = 0 THEN p
    ELSE IF rows = 1
    THEN IF row_overflows(w) THEN panic(p)
         ELSE write_bytes(p, packed_row(bitmap, first, w))
    ELSE LET half == rows \div 2
             q == print_rows(p, bitmap, first, w, half)
         IN IF Failed(q) THEN q
            ELSE print_rows(q, bitmap, first + half * w, w, rows - half)

chunk_timeout(p, brows) == p.dot_print_time * brows

(* for chunk in bits[..w * h].chunks(max_rows_in_chunk * w): the chunk     *)
(* starts at bit `start`, `total` = w * h, `size` = max_rows_in_chunk * w. *)
RECURSIVE print_chunks(_, _, _, _, _, _)
print_chunks(p, bitmap, start, total, w, size) ==
    IF start >= total THEN p
    ELSE LET len == IF total - start < size THEN total - start ELSE size
             brows == len \div w
             q == write_bytes(p, chunk_header(brows, w))
         IN IF Failed(q) THEN q
            ELSE LET r == print_rows(q, bitmap, start, w, brows)
                 IN IF Failed(r) THEN r
                    ELSE print_chunks(set_timeout(r, chunk_timeout(r, brows)),
                                      bitmap, start + len, total, w, size)

(* bitmap.view_bits::<Msb0>()[..w * h] panics when the slice has fewer     *)
(* than w * h bits; bits past w * h are left out.                          *)
slice_too_short_mut(w, h, bitmap) == w * h >= 8 * Len(bitmap)

slice_too_short(w, h, bitmap) == w * h > 8 * Len(bitmap)

max_rows_in_chunk(w) == (CHUNK_SIZE * 8) \div w

print_bitmap(p, w, h, bitmap) ==
    IF w = 0 THEN panic(p)
    ELSE LET q == [p EXCEPT !.dot_print_time = BITMAP_DOT_PRINT_TIME]
         IN IF slice_too_short(w, h, bitmap) THEN panic(q)
            ELSE IF max_rows_in_chunk(w) = 0 THEN panic(q)
            ELSE LET r == print_chunks(q, bitmap, 0, w * h, w, max_rows_in_chunk(w) * w)
                 IN IF Failed(r) THEN r ELSE [r EXCEPT !.last_byte = LF]

----------------------------------------------------------------------------
(* The state after Printer::new(port). *)
Init ==
    /\ timeout = STARTUP_WAIT
    /\ last_byte = LF
    /\ last_column = 0
    /\ max_column = 32
    /\ char_height = 24
    /\ inter_line_spacing = 6
    /\ barcode_height = 50
    /\ max_chunk_height = 255
    /\ firmware_version = DEFAULT_FIRMWARE
    /\ dot_print_time = 20000
    /\ dot_feed_time = 2100
    /\ port = <<>>
    /\ result = "ok"
    /\ op = [name |-> "new", args |-> <<>>]

(* A method is called once the caller has taken the previous call's        *)
(* result.                                                                 *)
Ready == op.name \in {"new", "idle"}

Call(p, o) == Ready /\ Return(p, o)

(* The caller takes the result of the last call (`?` / unwrap() at the     *)
(* call site); the transcript of the next call starts empty.  A panic      *)
(* unwinds through the caller, which makes no further call.                *)
Forget ==
    /\ ~Ready
    /\ result # "panic"
    /\ op' = [name |-> "idle", args |-> <<>>]
    /\ port' = <<>>
    /\ result' = "ok"
    /\ UNCHANGED fields

Wait ==
    Call(wait(Self(NoFault)), [name |-> "wait", args |-> <<>>])

WriteBytes ==
    \E cmd \in RawCommands, f \in Faults :
        Call(write_bytes(Self(f), cmd), [name |-> "write_bytes", args |-> cmd])

CmdInit ==
    \E f \in Faults :
        Call(cmd_init(Self(f)), [name |-> "cmd_init", args |-> <<>>])

WriteChar ==
    \E c \in Chars, f \in Faults :
        Call(write_char(Self(f), c), [name |-> "write_char", args |-> <<c>>])

Write ==
    \E s \in SeqsUpTo(TextChars, MaxLen), f \in Faults :
        Call(write(Self(f), s), [name |-> "write", args |-> s])

CmdFeed ==
    \E lines \in 0..MaxLines, f \in Faults :
        Call(cmd_feed(Self(f), lines), [name |-> "cmd_feed", args |-> <<lines>>])

CmdWake ==
    \E f \in Faults :
        Call(cmd_wake(Self(f)), [name |-> "cmd_wake", args |-> <<>>])

PrinterInit ==
    \E f \in Faults :
        Call(init(Self(f)), [name |-> "init", args |-> <<>>])

CmdFlush ==
    \E f \in Faults :
        Call(cmd_flush(Self(f)), [name |-> "cmd_flush", args |-> <<>>])

CmdSetHeatConfig ==
    \E dots \in HeatDots, ht \in HeatTimes, hi \in HeatTimes, f \in Faults :
        Call(cmd_set_heat_config(Self(f), dots, ht, hi),
               [name |-> "cmd_set_heat_config", args |-> <<dots, ht, hi>>])

CmdSetPrintDensity ==
    \E density \in Densities, bt \in BreakTimes, f \in Faults :
        Call(cmd_set_print_density(Self(f), density, bt),
               [name |-> "cmd_set_print_density", args |-> <<density, bt>>])

CmdSetUnderline ==
    \E underline \in 0..2, f \in Faults :
        Call(cmd_set_underline(Self(f), underline),
               [name |-> "cmd_set_underline", args |-> <<underline>>])

SetBarcodeHeight ==
    \E val \in BarcodeHeights, f \in Faults :
        Call(set_barcode_height(Self(f), val),
               [name |-> "set_barcode_height", args |-> <<val>>])

CmdTestPage ==
    \E f \in Faults :
        Call(cmd_test_page(Self(f)), [name |-> "cmd_test_page", args |-> <<>>])

PrintBarcode ==
    \E s \in SeqsUpTo(PayloadBytes, MaxPayload), t \in BarcodeTypes, f \in Faults :
        Call(print_barcode(Self(f), s, t),
               [name |-> "print_barcode", args |-> <<t>> \o s])

PrintBitmap ==
    \E b \in Bitmaps, f \in Faults :
        Call(print_bitmap(Self(f), b.w, b.h, b.bits),
             [name |-> "print_bitmap", args |-> <<b.w, b.h>> \o b.bits])

Next ==
    \/ Wait
    \/ WriteBytes
    \/ CmdInit
    \/ WriteChar
    \/ Write
    \/ CmdFeed
    \/ CmdWake
    \/ PrinterInit
    \/ CmdFlush
    \/ CmdSetHeatConfig
    \/ CmdSetPrintDensity
    \/ CmdSetUnderline
    \/ SetBarcodeHeight
    \/ CmdTestPage
    \/ PrintBarcode
    \/ PrintBitmap
    \/ Forget

Spec == Init /\ [][Next]_vars

SpecChars == Init /\ [][WriteChar \/ Forget]_vars

(* A call made directly on the printer a successful call has returned. *)
Chain(p, o) == ~Ready /\ result = "ok" /\ Return(p, o)

(* print_bitmap over the larger set of bitmaps. *)
PrintBitmapCase ==
    \E b \in BitmapCases, f \in Faults :
        Call(print_bitmap(Self(f), b.w, b.h, b.bits),
             [name |-> "print_bitmap", args |-> <<b.w, b.h>> \o b.bits])

(* The command that follows print_bitmap: one that goes through            *)
(* write_bytes, one that writes to the port itself, and cmd_wake.          *)
AfterBitmap ==
    /\ op.name = "print_bitmap"
    /\ \E f \in Faults :
           \/ Chain(cmd_flush(Self(f)), [name |-> "cmd_flush", args |-> <<>>])
           \/ Chain(cmd_set_underline(Self(f), 1),
                    [name |-> "cmd_set_underline", args |-> <<1>>])
           \/ Chain(cmd_wake(Self(f)), [name |-> "cmd_wake", args |-> <<>>])

SpecBitmap == Init /\ [][PrintBitmapCase \/ AfterBitmap \/ Forget]_vars

(* The timing functions applied to a printer of any line geometry and     *)
(* calibration, and the byte duration of a Printer<BAUDRATE>.              *)
InitTiming ==
    /\ timeout = STARTUP_WAIT
    /\ last_byte = LF
    /\ last_column = 0
    /\ max_column = 32
    /\ char_height \in TimingHeights
    /\ inter_line_spacing \in TimingSpacings
    /\ barcode_height = 50
    /\ max_chunk_height = 255
    /\ firmware_version = DEFAULT_FIRMWARE
    /\ dot_print_time \in TimingDotTimes
    /\ dot_feed_time \in TimingDotTimes
    /\ port = <<>>
    /\ result = "ok"
    /\ op = [name |-> "new", args |-> <<>>]

FeedDuration ==
    /\ Ready
    /\ op' = [name |-> "feed_duration", args |-> <<feed_duration(Self(NoFault))>>]
    /\ UNCHANGED <<fields, port, result>>

TextLineDuration ==
    /\ Ready
    /\ op' = [name |-> "text_line_duration",
              args |-> <<text_line_duration(Self(NoFault))>>]
    /\ UNCHANGED <<fields, port, result>>

ByteDuration ==
    /\ Ready
    /\ \E baud \in BaudRates :
           op' = [name |-> "BYTE_DURATION", args |-> <<baud, byte_duration(baud)>>]
    /\ UNCHANGED <<fields, port, result>>

SpecTiming ==
    InitTiming /\ [][FeedDuration \/ TextLineDuration \/ ByteDuration \/ Forget]_vars

(* write_char as the call that follows a write_char that returned Ok. *)
WriteCharNext ==
    /\ op.name = "write_char"
    /\ \E c \in Chars, f \in Faults :
           Chain(write_char(Self(f), c), [name |-> "write_char", args |-> <<c>>])

SpecCharPairs == Init /\ [][WriteChar \/ WriteCharNext \/ Forget]_vars

(* print_barcode with payloads around 255 bytes. *)
PrintBarcodeLong ==
    \E n \in LongPayloadLengths, t \in BarcodeTypes, f \in Faults :
        Call(print_barcode(Self(f), Fill(n, 48), t),
             [name |-> "print_barcode", args |-> <<t>> \o Fill(n, 48)])

(* print_barcode as the call that follows set_barcode_height. *)
PrintBarcodeNext ==
    /\ op.name = "set_barcode_height"
    /\ \E s \in SeqsUpTo(PayloadBytes, MaxPayload), t \in BarcodeTypes, f \in Faults :
           Chain(print_barcode(Self(f), s, t),
                 [name |-> "print_barcode", args |-> <<t>> \o s])

SpecBarcode ==
    Init /\ [][PrintBarcodeLong \/ SetBarcodeHeight \/ PrintBarcodeNext \/ Forget]_vars

----------------------------------------------------------------------------
(* Reading the transcript of the last call. *)

IsWrite(e) == e.ev = "write"

(* The port writes of the last call, in order. *)
Writes == SelectSeq(port, IsWrite)

(* The byte strings handed to the port by the last call, in order. *)
Commands == [i \in 1..Len(Writes) |-> Writes[i].bytes]

RECURSIVE Flatten(_)
Flatten(ss) == IF ss = <<>> THEN <<>> ELSE Head(ss) \o Flatten(Tail(ss))

(* The bytes handed to the port by the last call, in order. *)
Sent == Flatten(Commands)

NotCR(c) == c # CR

ByteNotCR(c) == c % 256 # CR

LowBytes(s) == [i \in 1..Len(s) |-> s[i] % 256]

Repeat(x, n) == [i \in 1..n |-> x]

IsCall(name) == op.name = name

----------------------------------------------------------------------------
(* C1: in every public operation each port write comes directly after a    *)
(* wait that served the pending timeout, so the pending timeout is 0 at    *)
(* the moment of every port write.                                         *)
C1_WaitBeforeEveryWrite ==
    \A i \in 1..Len(port) :
        port[i].ev = "write" =>
            /\ port[i].t = 0
            /\ i > 1
            /\ port[i - 1].ev = "sleep"

(* C2: new() leaves the 500 ms startup wait pending, and the first call    *)
(* after new() hands no byte to the port before a wait has served those    *)
(* 500 ms in full.                                                         *)
C2_StartupWaitServed ==
    [][ /\ (op.name = "new" => timeout = STARTUP_WAIT)
        /\ (op.name = "new" /\ Len(SelectSeq(port', IsWrite)) > 0 =>
                /\ port'[1].ev = "sleep"
                /\ port'[1].t = STARTUP_WAIT) ]_vars

(* C3: cmd_feed(0) writes nothing to the port and changes no field of the  *)
(* Printer, whatever the firmware version and the state it is called in.   *)
C3_FeedZeroNoOp ==
    [][ op'.name = "cmd_feed" /\ op'.args = <<0>> =>
            /\ port' = <<>>
            /\ UNCHANGED fields ]_vars

(* C5: on modern firmware (>= 264) a successful cmd_feed(lines),           *)
(* lines >= 1, hands exactly the one command [ESC, 'd', lines] to the      *)
(* port, leaves dot_feed_time * char_height pending and the cursor at line *)
(* start.                                                                  *)
C5_ModernFeed ==
    IsCall("cmd_feed") /\ firmware_version >= MODERN_FIRMWARE
        /\ op.args[1] >= 1 /\ result = "ok"
    => /\ Commands = << <<ESC, 100, op.args[1]>> >>
       /\ timeout = dot_feed_time * char_height
       /\ last_byte = LF
       /\ last_column = 0

C5_Witness ==
    /\ IsCall("cmd_feed")
    /\ firmware_version >= MODERN_FIRMWARE
    /\ op.args[1] = MaxLines
    /\ result = "ok"
    /\ Len(Writes) = 1

(* C6: write_char(CR) returns Ok, performs no wait and no port write, and  *)
(* leaves every field (pending timeout, last_byte, last_column, ...)       *)
(* unchanged, in every state.                                              *)
C6_CarriageReturnNoOp ==
    [][ op'.name = "write_char" /\ op'.args = <<CR>> =>
            /\ port' = <<>>
            /\ result' = "ok"
            /\ UNCHANGED fields ]_vars

C6_Witness ==
    /\ IsCall("write_char")
    /\ op.args = <<CR>>
    /\ timeout > 0
    /\ last_column > 0
    /\ last_byte # LF

(* C7: when write_char has written a byte c # CR, the timeout left pending *)
(* is BYTE_DURATION plus a line duration exactly when c is LF or the       *)
(* column counter had reached max_column; that line duration is            *)
(* feed_duration() when last_byte was LF and text_line_duration()          *)
(* otherwise; in the other case nothing but BYTE_DURATION is pending and   *)
(* the column counter has grown by exactly 1.                              *)
C7_LineCharge ==
    [][ op'.name = "write_char" /\ result' = "ok" /\ op'.args[1] % 256 # CR =>
            IF op'.args[1] % 256 = LF \/ last_column >= max_column
            THEN /\ timeout' = BYTE_DURATION
                        + (IF last_byte = LF
                           THEN (char_height + inter_line_spacing) * dot_feed_time
                           ELSE char_height * dot_print_time
                                    + inter_line_spacing * dot_feed_time)
                 /\ last_column' = 0
            ELSE /\ timeout' = BYTE_DURATION
                 /\ last_column' = last_column + 1 ]_vars

(* A character written at the last column: the wrap is charged. *)
C7_Witness ==
    /\ IsCall("write_char")
    /\ op.args = <<97>>
    /\ result = "ok"
    /\ last_column = 0
    /\ timeout = BYTE_DURATION + char_height * dot_print_time
                    + inter_line_spacing * dot_feed_time

(* C8: over sequences of write_char calls the cursor starts at LineStart   *)
(* (last_byte = LF, last_column = 0) and a call either leaves the cursor   *)
(* where it is (a dropped CR, a failed write) or takes one of the four     *)
(* transitions, the label being the byte written:                          *)
(*   LineStart --non-LF--> MidLine, column incremented;                    *)
(*   MidLine --LF or column = max_column--> LineStart, text line charged;  *)
(*   LineStart --LF--> LineStart, feed charged;                            *)
(*   MidLine --non-LF, column < max_column--> MidLine, column incremented. *)
LineStart == last_byte = LF /\ last_column = 0

MidLine == last_byte # LF /\ last_column >= 1 /\ last_column <= max_column

CursorStep ==
    LET b == op'.args[1] % 256
        text == char_height * dot_print_time + inter_line_spacing * dot_feed_time
        feed == (char_height + inter_line_spacing) * dot_feed_time
    IN \/ /\ b = CR \/ result' # "ok"
          /\ UNCHANGED <<last_byte, last_column>>
       \/ /\ LineStart /\ b # LF
          /\ MidLine' /\ last_column' = last_column + 1
       \/ /\ MidLine /\ (b = LF \/ last_column = max_column)
          /\ LineStart' /\ timeout' = BYTE_DURATION + text
       \/ /\ LineStart /\ b = LF
          /\ LineStart' /\ timeout' = BYTE_DURATION + feed
       \/ /\ MidLine /\ b # LF /\ last_column < max_column
          /\ MidLine' /\ last_column' = last_column + 1

C8_CursorStateMachine ==
    /\ LineStart
    /\ [][ /\ (op'.name = "write_char" => CursorStep)
           /\ (LineStart' \/ MidLine') ]_vars

(* The wrap transition: a non-LF byte written at column max_column. *)
C8_Witness ==
    /\ IsCall("write_char")
    /\ op.args = <<353>>
    /\ result = "ok"
    /\ LineStart
    /\ timeout = BYTE_DURATION + char_height * dot_print_time
                    + inter_line_spacing * dot_feed_time

(* C9 as stated: the bytes write(s) hands to the port are the non-CR       *)
(* characters of a prefix of s, in order; after a transport error nothing  *)
(* more is written and the error is returned.                              *)
C9_WritePrefixOfChars ==
    IsCall("write") =>
        /\ \E n \in 0..Len(op.args) : Sent = SelectSeq(SubSeq(op.args, 1, n), NotCR)
        /\ \A i \in 1..Len(Writes) : Writes[i].res = "err" => i = Len(Writes)
        /\ (result = "transport") = (\E i \in 1..Len(Writes) : Writes[i].res = "err")

(* C9 amended: the bytes write(s) hands to the port are the low bytes      *)
(* (c as u8) of the characters of a prefix of s, those equal to CR left    *)
(* out, in order; each is written once; after a transport error nothing    *)
(* more is written and the error is returned; without one the prefix is    *)
(* all of s.                                                               *)
C9_WritePrefixOfBytes ==
    IsCall("write") =>
        /\ \E n \in 0..Len(op.args) :
              /\ Sent = SelectSeq(LowBytes(SubSeq(op.args, 1, n)), NotCR)
              /\ (result = "ok" => n = Len(op.args))
        /\ \A i \in 1..Len(Writes) : Len(Writes[i].bytes) = 1
        /\ \A i \in 1..Len(Writes) : Writes[i].res = "err" => i = Len(Writes)
        /\ (result = "transport") = (\E i \in 1..Len(Writes) : Writes[i].res = "err")

(* write stopped at the first of two characters that are both bytes to    *)
(* send: the second was never handed to the port.                          *)
C9_Witness ==
    /\ IsCall("write")
    /\ op.args = <<353, LF>>
    /\ result = "transport"
    /\ Len(Writes) = 1
    /\ Writes[1].res = "err"

(* C10: a successful print_barcode hands to the port, in this order, a     *)
(* feed of one line, [GS,'H',2], [GS,'w',3] and the symbology command:     *)
(* [GS,'k',type+65,len] and the payload on firmware >= 264, [GS,'k',type], *)
(* the payload and a 0 byte otherwise.  The feed of one line is            *)
(* [ESC,'d',1] on firmware >= 264 and one LF byte otherwise.               *)
C10_BarcodeOrder ==
    IsCall("print_barcode") /\ result = "ok" =>
        LET type == op.args[1]
            payload == Tail(op.args)
        IN Commands =
             IF firmware_version >= MODERN_FIRMWARE
             THEN << <<ESC, 100, 1>>, <<GS, 72, 2>>, <<GS, 119, 3>>,
                     <<GS, 107, type + 65, Len(payload)>>, payload >>
             ELSE << <<LF>>, <<GS, 72, 2>>, <<GS, 119, 3>>,
                     <<GS, 107, type>>, payload, <<0>> >>

(* C11: print_barcode fails with an encoding error whenever the payload is *)
(* longer than 255 bytes, and the length byte of every symbology command   *)
(* [GS,'k',type,len] it hands to the port is the payload's length.         *)
C11_BarcodeLengthChecked ==
    IsCall("print_barcode") =>
        LET payload == Tail(op.args)
        IN /\ (Len(payload) > 255 => result = "encoding")
           /\ \A i \in 1..Len(Commands) :
                 Len(Commands[i]) = 4 /\ SubSeq(Commands[i], 1, 2) = <<GS, 107>>
                     => Commands[i][4] = Len(payload)

(* C12: when print_barcode succeeds right after a successful               *)
(* set_barcode_height(val), the pending timeout is the print time of the   *)
(* height the printer was told, max(1, val), plus the 40 dot lines of the  *)
(* caption: the timeout follows the height most recently set.              *)
C12_BarcodeTimeoutFollowsHeight ==
    [][(/\ op.name = "set_barcode_height" /\ result = "ok"
        /\ op'.name = "print_barcode" /\ result' = "ok")
          => timeout' = (max(1, op.args[1]) + 40) * dot_print_time']_vars

-----------------------------------------------------------------------------
(* The arguments of the print_bitmap call and the layout of its writes:    *)
(* chunk k (from 1) starts with its header at HeaderPos(k), row r (from 0) *)
(* of the bitmap is the write at RowPos(r).                                *)
BitmapW == op.args[1]

BitmapH == op.args[2]

BitmapBytes == SubSeq(op.args, 3, Len(op.args))

BitmapBits == 8 * Len(BitmapBytes)

RowBytes == (BitmapW + 7) \div 8

MaxRows == (CHUNK_SIZE * 8) \div BitmapW

NumChunks == (BitmapH + MaxRows - 1) \div MaxRows

HeaderPos(k) == (k - 1) * (MaxRows + 1) + 1

RowPos(r) == r + (r \div MaxRows) + 2

(* C13 as the spec states it: a bitmap whose bit count differs from         *)
(* width * height, shorter or longer, is a precondition failure and        *)
(* nothing is transmitted for it.                                          *)
C13_BitmapExactLength ==
    IsCall("print_bitmap") /\ BitmapBits # BitmapW * BitmapH
        => result = "panic" /\ Commands = <<>>

(* The first ceil(width * height / 8) bytes of the slice handed to the    *)
(* last print_bitmap call.                                                 *)
BitmapPrefix ==
    SubSeq(BitmapBytes, 1, (BitmapW * BitmapH + 7) \div 8)

(* What the port did during the last call, read off the transcript: the   *)
(* write it did not accept in full, if there was one.                      *)
PortFault ==
    LET bad == {i \in 1..Len(Writes) : Writes[i].res # "ok"}
    IN IF bad = {} THEN NoFault
       ELSE LET i == CHOOSE j \in bad : TRUE
            IN [at |-> i, kind |-> Writes[i].res]

(* C13: print_bitmap needs at least width * height bits.  With fewer the   *)
(* call panics and nothing is transmitted.  With width * height bits or    *)
(* more the call does exactly what it does, on the same port, for the      *)
(* first ceil(width * height / 8) bytes of the slice: same transcript,     *)
(* same result, same fields.                                               *)
C13_BitmapAtLeastLength ==
    [][Ready /\ IsCall("print_bitmap")' =>
          /\ (BitmapBits < BitmapW * BitmapH)'
                => result' = "panic" /\ Commands' = <<>>
          /\ (BitmapBits >= BitmapW * BitmapH)'
                => \E f \in {PortFault'}, w \in {BitmapW'}, h \in {BitmapH'},
                      bits \in {BitmapPrefix'} :
                         Return(print_bitmap(Self(f), w, h, bits), op')]_vars

(* A bitmap of 16 bits printed as one row of 8 dots: the call returns Ok   *)
(* after the header and the one row.                                       *)
C13_Witness ==
    /\ IsCall("print_bitmap") /\ result = "ok"
    /\ BitmapW = 8 /\ BitmapH = 1 /\ BitmapBits = 16
    /\ Len(Commands) = 2 /\ Commands[2] = <<BitmapBytes[1]>>

(* C14: a width of which not one row fits in a chunk (max_rows_in_chunk    *)
(* < 1) is a precondition failure, and for every width from 1 to 4096 the  *)
(* call does not fail on the width: each of the height rows is             *)
(* transmitted as ceil(width / 8) bytes.                                   *)
C14_EveryWidthTransmitted ==
    IsCall("print_bitmap") /\ BitmapW >= 1 /\ BitmapBits >= BitmapW * BitmapH =>
        /\ MaxRows < 1 => result = "panic" /\ Commands = <<>>
        /\ MaxRows >= 1 =>
              /\ result # "panic"
              /\ result = "ok" =>
                    \A r \in 0..(BitmapH - 1) : Len(Commands[RowPos(r)]) = RowBytes

(* Rows of chunk k (from 1): max_rows_in_chunk in every chunk but the     *)
(* last, which holds the rest.                                             *)
ChunkRows(k) == IF k < NumChunks THEN MaxRows ELSE BitmapH - (NumChunks - 1) * MaxRows

IsHeader(c) == Len(c) = 4 /\ c[1] = DC2 /\ c[2] = 42

(* C15: for a valid bitmap (width >= 1, at least one row fits in a chunk,  *)
(* width * height bits supplied) and a port that takes every write,        *)
(* print_bitmap emits ceil(height / max_rows_in_chunk) chunks: the writes  *)
(* are, chunk after chunk, one header followed by the chunk's rows, with   *)
(* max_rows_in_chunk rows in every chunk but the last, height rows in all. *)
C15_ChunkStructure ==
    /\ IsCall("print_bitmap") /\ result # "transport"
    /\ BitmapW >= 1 /\ MaxRows >= 1 /\ BitmapBits >= BitmapW * BitmapH
    => /\ Len(Commands) = NumChunks + BitmapH
       /\ \A k \in 1..NumChunks :
             /\ IsHeader(Commands[HeaderPos(k)])
             /\ \A j \in 1..ChunkRows(k) :
                   Len(Commands[HeaderPos(k) + j]) = RowBytes

(* The bytes of the writes lo..hi of the last call. *)
RECURSIVE SumLen(_, _)
SumLen(lo, hi) ==
    IF lo > hi THEN 0
    ELSE IF lo = hi THEN Len(Commands[lo])
    ELSE LET mid == (lo + hi) \div 2
         IN SumLen(lo, mid) + SumLen(mid + 1, hi)

(* The row bytes written after the header of chunk k. *)
ChunkData(k) ==
    LET last == HeaderPos(k) + ChunkRows(k)
    IN SumLen(HeaderPos(k) + 1, IF last < Len(Commands) THEN last ELSE Len(Commands))

(* C16: for every width and height the row data that follows one chunk     *)
(* header is at most CHUNK_SIZE = 512 bytes.                               *)
C16_ChunkFitsBuffer ==
    IsCall("print_bitmap") /\ BitmapW >= 1 /\ MaxRows >= 1 =>
        \A k \in 1..NumChunks : ChunkData(k) <= CHUNK_SIZE

(* Bit i (from 0) of a byte string read MSB first. *)
MsbBit(bytes, i) == (bytes[(i \div 8) + 1] \div (2 ^ (7 - (i % 8)))) % 2

(* Row r (from 0) of the bitmap has been written by the last call. *)
RowSent(r) == r < BitmapH /\ RowPos(r) <= Len(Commands)

(* C17: for every bitmap whose width is a multiple of 8 (with the bits    *)
(* its width and height need, on a port that returns no error), every row  *)
(* is transmitted, unpacks MSB first to the bits of that row of the input  *)
(* and its bytes are the input bytes of the row, unchanged.                *)
C17_RoundTrip ==
    /\ IsCall("print_bitmap") /\ BitmapW >= 1 /\ MaxRows >= 1 /\ BitmapW % 8 = 0
    /\ BitmapBits >= BitmapW * BitmapH /\ result # "transport"
    => \A r \in 0..(BitmapH - 1) :
          /\ RowSent(r)
          /\ Commands[RowPos(r)]
                = SubSeq(BitmapBytes, r * RowBytes + 1, (r + 1) * RowBytes)
          /\ \A i \in 0..(BitmapW - 1) :
                MsbBit(Commands[RowPos(r)], i)
                    = MsbBit(BitmapBytes, r * BitmapW + i)

(* C18: for every width (with the bits width and height need, on a port    *)
(* that returns no error) each row is transmitted as a byte string of its  *)
(* own of ceil(width / 8) bytes in which bit idx of the row sits in byte   *)
(* idx / 8 at bit position 7 - idx % 8 (MSB first) and the bits past the   *)
(* width are 0.                                                            *)
C18_MsbFirstPacking ==
    /\ IsCall("print_bitmap") /\ BitmapW >= 1 /\ MaxRows >= 1
    /\ BitmapBits >= BitmapW * BitmapH /\ result # "transport"
    => LET cmds == Commands
           bytes == BitmapBytes
       IN \A r \in 0..(BitmapH - 1) :
             /\ r + (r \div MaxRows) + 2 <= Len(cmds)
             /\ LET row == cmds[r + (r \div MaxRows) + 2]
                IN /\ Len(row) = RowBytes
                   /\ \A idx \in 0..(8 * RowBytes - 1) :
                         MsbBit(row, idx)
                             = IF idx < BitmapW
                               THEN MsbBit(bytes, r * BitmapW + idx)
                               ELSE 0

(* C19: after a successful print_bitmap, whatever the cursor was before    *)
(* the call, the cursor is at line start: last_byte = LF and               *)
(* last_column = 0.                                                        *)
C19_BitmapResetsCursor ==
    IsCall("print_bitmap") /\ result = "ok" => last_byte = LF /\ last_column = 0

(* The port event before write number i of the last call is a sleep of     *)
(* duration d.                                                             *)
SleptBefore(i, d) ==
    /\ port[2 * i].ev = "write" /\ port[2 * i].bytes = Commands[i]
    /\ port[2 * i - 1].ev = "sleep" /\ port[2 * i - 1].t = d

(* After a chunk of r rows the timeout is r * dot_print_time: it is served *)
(* right before the header of the next chunk, and is the pending timeout   *)
(* when the call returns after the last chunk.                             *)
ChunkPacing ==
    BitmapW >= 1 /\ MaxRows >= 1 =>
        /\ \A k \in 2..NumChunks :
              HeaderPos(k) <= Len(Commands)
                  => SleptBefore(HeaderPos(k), ChunkRows(k - 1) * dot_print_time)
        /\ result = "ok" /\ NumChunks >= 1
              => timeout = ChunkRows(NumChunks) * dot_print_time

(* C20: in print_bitmap the first header is written only after a wait has  *)
(* served the timeout pending at entry; after a chunk of r rows the        *)
(* pending timeout is r * dot_print_time; that wait is served before the   *)
(* header of the next chunk, and before the first write of the command     *)
(* that follows print_bitmap.                                              *)
C20_BitmapPacing ==
    [][/\ IsCall("print_bitmap")' /\ Commands' # <<>>
             => port'[1].ev = "sleep" /\ port'[1].t = timeout /\ port'[2].ev = "write"
       /\ IsCall("print_bitmap")' => ChunkPacing'
       /\ (/\ IsCall("print_bitmap") /\ result = "ok"
           /\ op'.name # "idle" /\ Writes' # <<>>)
             => port'[1].ev = "sleep" /\ port'[1].t = timeout]_vars

-----------------------------------------------------------------------------
(* C21: after a successful init, whatever the state before, the first      *)
(* bytes handed to the port are the reset command [ESC,'@'] and the cursor *)
(* and line geometry are at their defaults.                                *)
C21_InitResets ==
    IsCall("init") /\ result = "ok" =>
        /\ Commands # <<>> /\ Commands[1] = <<ESC, 64>>
        /\ last_byte = LF /\ last_column = 0 /\ max_column = 32
        /\ char_height = 24 /\ inter_line_spacing = 6 /\ barcode_height = 50

(* init has returned Ok on the default firmware: reset, tab stops, heat    *)
(* configuration.                                                          *)
C21_Witness ==
    /\ IsCall("init") /\ result = "ok" /\ firmware_version = DEFAULT_FIRMWARE
    /\ Len(Commands) = 3 /\ Commands[1] = <<ESC, 64>>
    /\ last_byte = LF /\ last_column = 0

(* C22: a successful init hands the tab stops and the heat configuration  *)
(* to the port if and only if firmware_version >= 264; below 264 the       *)
(* reset command is all it transmits.                                      *)
C22_InitConfiguresModernOnly ==
    IsCall("init") /\ result = "ok" =>
        IF firmware_version >= 264
        THEN Commands = << <<ESC, 64>>,
                           <<ESC, 68, 4, 8, 12, 16, 20, 24, 28, 0>>,
                           <<ESC, 55, 11, 12, 4>> >>
        ELSE Commands = << <<ESC, 64>> >>

(* init has returned Ok on the firmware new() sets: the reset, the tab     *)
(* stops and the heat configuration were handed to the port.               *)
C22_Witness ==
    /\ IsCall("init") /\ result = "ok" /\ firmware_version >= 264
    /\ Len(Commands) = 3
    /\ Commands[2] = <<ESC, 68, 4, 8, 12, 16, 20, 24, 28, 0>>
    /\ Commands[3] = <<ESC, 55, 11, 12, 4>>

(* C23: init, write_char, write, cmd_feed, cmd_wake, print_barcode and     *)
(* print_bitmap leave dot_print_time and dot_feed_time as they were, so    *)
(* feed_duration() and text_line_duration() of a given geometry are the    *)
(* same before and after the call.                                         *)
C23_CalibrationFrame ==
    [][op'.name \in {"init", "write_char", "write", "cmd_feed", "cmd_wake",
                     "print_barcode", "print_bitmap"}
          => /\ dot_print_time' = dot_print_time
             /\ dot_feed_time' = dot_feed_time]_vars

(* C24: cmd_set_heat_config(dots, heating_time, heating_interval) hands    *)
(* exactly [ESC,'7',dots, heating_time / 10, heating_interval / 10]        *)
(* (microseconds) to the port when both quotients fit in a byte; when one  *)
(* of them exceeds 255 it returns an encoding error, nothing is handed to  *)
(* the port and the pending timeout stays as it was.                       *)
C24_HeatConfig ==
    [][op'.name = "cmd_set_heat_config" =>
          LET dots == op'.args[1]
              time == op'.args[2] \div 10
              interval == op'.args[3] \div 10
          IN IF time <= 255 /\ interval <= 255
             THEN /\ result' # "encoding"
                  /\ Commands' = << <<ESC, 55, dots, time, interval>> >>
             ELSE /\ result' = "encoding"
                  /\ port' = <<>>
                  /\ timeout' = timeout]_vars

(* A heating time of 2560 us is refused while the startup wait is pending. *)
C24_Witness ==
    /\ IsCall("cmd_set_heat_config") /\ op.args = <<11, 2560, 40>>
    /\ result = "encoding" /\ port = <<>> /\ timeout = STARTUP_WAIT

(* C25: a successful cmd_wake hands the wake byte 0xFF to the port first;  *)
(* then, on firmware > 264, the one command [ESC,'8',0,0], written after a *)
(* wait of 50 ms, with 50 ms left pending; otherwise ten writes of one 0   *)
(* byte, the first after a wait of 50 ms and each of the others after a    *)
(* wait of 10 ms, with 10 ms left pending.                                 *)
C25_Wake ==
    IsCall("cmd_wake") /\ result = "ok" =>
        IF firmware_version > 264
        THEN /\ Commands = << <<255>>, <<ESC, 56, 0, 0>> >>
             /\ SleptBefore(2, 50000)
             /\ timeout = 50000
        ELSE /\ Commands = << <<255>> >> \o Repeat(<<0>>, 10)
             /\ SleptBefore(2, 50000)
             /\ \A i \in 3..11 : SleptBefore(i, 10000)
             /\ timeout = 10000

(* cmd_wake has returned Ok on the firmware new() sets, which takes the    *)
(* sleep-disable command.                                                  *)
C25_Witness ==
    /\ IsCall("cmd_wake") /\ result = "ok" /\ firmware_version > 264
    /\ Len(Commands) = 2 /\ Commands[2] = <<ESC, 56, 0, 0>> /\ timeout = 50000

(* C26: a port write that accepts fewer bytes than requested makes the     *)
(* operation fail: it is the last write of the call and the call does not  *)
(* return Ok.                                                              *)
C26_ShortWriteFails ==
    \A i \in 1..Len(Writes) :
        Writes[i].res = "short" => result # "ok" /\ i = Len(Writes)

-----------------------------------------------------------------------------
(* The printer with another character height or line spacing. *)
WithHeight(h) == [Self(NoFault) EXCEPT !.char_height = h]

WithSpacing(d) == [Self(NoFault) EXCEPT !.inter_line_spacing = d]

(* C27: feed_duration() is (char_height + inter_line_spacing) *            *)
(* dot_feed_time and text_line_duration() is char_height * dot_print_time  *)
(* + inter_line_spacing * dot_feed_time; with positive calibration         *)
(* constants both are non-negative and grow strictly with char_height and  *)
(* with inter_line_spacing.                                                *)
C27_TimingModel ==
    /\ IsCall("feed_duration") =>
          /\ op.args[1] = (char_height + inter_line_spacing) * dot_feed_time
          /\ op.args[1] >= 0
          /\ \A h \in TimingHeights :
                h > char_height => feed_duration(WithHeight(h)) > op.args[1]
          /\ \A d \in TimingSpacings :
                d > inter_line_spacing => feed_duration(WithSpacing(d)) > op.args[1]
    /\ IsCall("text_line_duration") =>
          /\ op.args[1] = char_height * dot_print_time
                              + inter_line_spacing * dot_feed_time
          /\ op.args[1] >= 0
          /\ \A h \in TimingHeights :
                h > char_height => text_line_duration(WithHeight(h)) > op.args[1]
          /\ \A d \in TimingSpacings :
                d > inter_line_spacing
                    => text_line_duration(WithSpacing(d)) > op.args[1]

(* The text line of the default geometry and calibration: 24 dot rows      *)
(* printed at 20 ms and 6 fed at 2.1 ms.                                   *)
C27_Witness ==
    /\ IsCall("text_line_duration") /\ op.args = <<492600>>
    /\ char_height = 24 /\ inter_line_spacing = 6
    /\ dot_print_time = 20000 /\ dot_feed_time = 2100

C29_HeaderConsistent ==
    IsCall("print_bitmap") /\ result = "ok" /\ BitmapW >= 1 /\ MaxRows >= 1 =>
        LET cmds == Commands
        IN \A k \in 1..NumChunks :
              /\ cmds[HeaderPos(k)][3] = ChunkRows(k)
              /\ cmds[HeaderPos(k)][4] = RowBytes
              /\ \A j \in 1..ChunkRows(k) : Len(cmds[HeaderPos(k) + j]) = RowBytes

(* C30: in every state reachable by the public operations the column       *)
(* counter lies between 0 and max_column.                                  *)
C30_ColumnInRange == 0 <= last_column /\ last_column <= max_column

(* The line is full: the next character takes the wrap. *)
C30_Witness ==
    IsCall("write_char") /\ result = "ok" /\ last_column = max_column

-----------------------------------------------------------------------------
(* C31: over sequences of write_char calls, a line feed written right      *)
(* after a character that is neither LF nor CR and was taken by the port   *)
(* is charged BYTE_DURATION + text_line_duration(), never                  *)
(* feed_duration(), also when that character took the wrap at max_column.  *)
C31_LineFeedAfterText ==
    [][(/\ op.name = "write_char" /\ result = "ok"
        /\ op.args[1] % 256 \notin {LF, CR}
        /\ Len(Writes) = 1 /\ Writes[1].res = "ok"
        /\ op'.name = "write_char" /\ result' = "ok"
        /\ op'.args[1] % 256 = LF)
          => timeout' = BYTE_DURATION + char_height * dot_print_time
                            + inter_line_spacing * dot_feed_time]_vars

====
